---- MODULE Spec2Model ----
(***************************************************************************)
(* Model of pong_v2/main.py: the game loop of PongGame(800, 500), its      *)
(* ball, the two rackets, the AI and the judge.  Rectangles are pygame     *)
(* Rects with integer coordinates; a rectangle is given by the y (or x, y) *)
(* of its top-left corner, its width and height being fixed.               *)
(***************************************************************************)
EXTENDS Integers, Sequences, FiniteSets, TLC

VARIABLES
    ball,       \* [x, y, x_speed, y_speed]: Ball.rect.x, .rect.y and the velocity
    player1,    \* [y, max_speed]: the human racket, rect.x = 0
    player2,    \* [y, max_speed]: the computer racket, rect.x = 780
    score,      \* Judge.score, a list of two counters indexed 0 and 1
    pc,         \* the statement of PongGame.run that executes next
    pygame_on,  \* FALSE once pygame.quit() was called
    tick,       \* iterations of the while loop begun so far
    judged,     \* history: what the latest two update_score calls awarded
    struck,     \* history: the rackets the ball hit in the latest two Ball.move calls
    keys,       \* history: the KEYDOWN events not yet followed by their KEYUP
    last        \* history: the call made last and the values it started from

vars == <<ball, player1, player2, score, pc, pygame_on, tick, judged, struck, keys, last>>

----------------------------------------------------------------------------
(* Bounds of the model. *)

\* loop iterations explored
MaxTicks == 232
\* events one pygame.event.get() call returns
MaxEvents == 2
\* |player1.max_speed| <= 7 * MaxSpeedSteps
MaxSpeedSteps == 2
\* KEYDOWN events of one key without their KEYUP
MaxHeld == 2
\* loop iterations beaten_within looks ahead
MaxBeatTicks == 310
\* the single calls start from coordinates within Margin of the walls and the centre
Margin == 5
\* counters the single calls start from
MaxAnyScore == 1
\* max_speed of the racket Racket.move is called on
MaxAnySpeed == 12
\* a target of Racket.move far outside the arena
FarTarget == 100000

----------------------------------------------------------------------------
(* Program constants. *)

BoardWidth == 800
BoardHeight == 500
BallSize == 20
BallStartX == BoardWidth \div 2
BallStartY == BoardHeight \div 2
BallSpeed == 5
RacketWidth == 10
RacketHeight == 80
Player1X == 0
Player2X == BoardWidth - 20
RacketStartY == BoardHeight \div 2
AiSpeed == 10
KeySpeed == 7

Abs(n) == IF n < 0 THEN -n ELSE n

----------------------------------------------------------------------------
(* Ball *)

bounce_y(b) == [b EXCEPT !.y_speed = -b.y_speed]

\* bounce_x written with = instead of *=
bounce_x_assign(b) == [b EXCEPT !.x_speed = -1]

bounce_x(b) == [b EXCEPT !.x_speed = -b.x_speed]

\* reset inverting the X axis, as its docstring has it
reset_bounce_x(b) == bounce_x([b EXCEPT !.x = BallStartX, !.y = BallStartY])

reset(b) == bounce_y([b EXCEPT !.x = BallStartX, !.y = BallStartY])

\* pygame Rect.colliderect of the ball's rect with a racket's rect at (rx, ry):
\* the rectangles overlap in a region of positive area.
colliderect(b, rx, ry) ==
    /\ b.x < rx + RacketWidth
    /\ rx < b.x + BallSize
    /\ b.y < ry + RacketHeight
    /\ ry < b.y + BallSize

\* the position after the two += of Ball.move
advance(b) == [b EXCEPT !.x = b.x + b.x_speed, !.y = b.y + b.y_speed]

wall_x(b) == b.x <= 0 \/ b.x >= BoardWidth - BallSize

\* wall_y letting the ball reach past the boundary before it bounces
wall_y_strict(b) == b.y < 0 \/ b.y > BoardHeight - BallSize

wall_y(b) == b.y <= 0 \/ b.y >= BoardHeight - BallSize

\* collide with racket branches that leave x_speed alone
collide_through(a, y1, y2) ==
    LET b1 == IF wall_x(a) THEN bounce_x(a) ELSE a
    IN  IF wall_y(b1) THEN bounce_y(b1) ELSE b1

\* the collision checks of Ball.move on the advanced ball a, rackets at y1, y2
collide(a, y1, y2) ==
    LET b1 == IF wall_x(a) THEN bounce_x(a) ELSE a
        b2 == IF wall_y(b1) THEN bounce_y(b1) ELSE b1
        b3 == IF colliderect(b2, Player1X, y1) THEN bounce_x(b2) ELSE b2
        b4 == IF colliderect(b3, Player2X, y2) THEN bounce_x(b3) ELSE b3
    IN  b4

\* move that bounces off a racket from where the ball was
move_held_at_racket(b, y1, y2) ==
    IF colliderect(advance(b), Player1X, y1) \/ colliderect(advance(b), Player2X, y2)
    THEN bounce_x(b)
    ELSE collide(advance(b), y1, y2)

move(b, y1, y2) == collide(advance(b), y1, y2)

\* the rackets (1 for player1, 2 for player2) whose branch of the for loop of
\* Ball.move fires on the advanced ball a: bouncing leaves the position alone
hit_rackets(a, y1, y2) ==
    {n \in {1, 2} : colliderect(a, IF n = 1 THEN Player1X ELSE Player2X,
                                   IF n = 1 THEN y1 ELSE y2)}

\* the rect's top in the place of its centery
centery_top(b) == b.y

\* pygame Rect.centery of the ball's rect
centery(b) == b.y + BallSize \div 2

----------------------------------------------------------------------------
(* Racket *)

\* Racket.move without the speed limit
racket_move_unlimited(ry, max_speed, y) == y

\* Racket.move(y) on a racket at rect.y = ry: the new rect.y
racket_move(ry, max_speed, y) ==
    LET delta == y - ry
        capped == IF Abs(delta) > max_speed
                  THEN (IF delta > 0 THEN max_speed ELSE -max_speed)
                  ELSE delta
    IN  ry + capped

\* the two ifs that put a racket back between the top and the bottom of the window
clamp(ry) ==
    LET t == IF ry <= 0 THEN 0 ELSE ry
    IN  IF t + RacketHeight >= BoardHeight THEN BoardHeight - RacketHeight ELSE t

\* move_smooth without its two clamps
move_smooth_unclamped(r) == [r EXCEPT !.y = r.y + r.max_speed]

move_smooth(r) == [r EXCEPT !.y = clamp(r.y) + r.max_speed]

\* Ai.move: follow the ball's rect.centery, then clamp
ai_move(r, b) == [r EXCEPT !.y = clamp(racket_move(r.y, r.max_speed, centery(b)))]

----------------------------------------------------------------------------
(* Judge *)

\* update_score crediting the other counter at the left boundary
update_score_swapped(s, b, board_width) ==
    IF b.x <= 0
    THEN <<[s EXCEPT ![1] = s[1] + 1], reset(b)>>
    ELSE IF b.x >= board_width - BallSize
         THEN <<[s EXCEPT ![0] = s[0] + 1], reset(b)>>
         ELSE <<s, b>>

\* update_score that forgets to put the ball back
update_score_no_reset(s, b, board_width) ==
    IF b.x <= 0
    THEN <<[s EXCEPT ![0] = s[0] + 1], b>>
    ELSE IF b.x >= board_width - BallSize
         THEN <<[s EXCEPT ![1] = s[1] + 1], b>>
         ELSE <<s, b>>

\* update_score with two ifs, the first of them crediting both counters
update_score_both(s, b, board_width) ==
    IF b.x <= 0
    THEN <<[s EXCEPT ![0] = s[0] + 1, ![1] = s[1] + 1], reset(b)>>
    ELSE IF b.x >= board_width - BallSize
         THEN <<[s EXCEPT ![1] = s[1] + 1], reset(b)>>
         ELSE <<s, b>>

\* Judge.update_score(board_width): the new <<score, ball>>
update_score(s, b, board_width) ==
    IF b.x <= 0
    THEN <<[s EXCEPT ![0] = s[0] + 1], reset(b)>>
    ELSE IF b.x >= board_width - BallSize
         THEN <<[s EXCEPT ![1] = s[1] + 1], reset(b)>>
         ELSE <<s, b>>

\* which counter a call of update_score raised
award(s, t) ==
    IF t[0] # s[0] THEN "left" ELSE IF t[1] # s[1] THEN "right" ELSE "none"

----------------------------------------------------------------------------
(* PongGame.handle_events *)

Events == {"QUIT", "KEYDOWN_K_DOWN", "KEYDOWN_K_UP", "KEYUP_K_DOWN", "KEYUP_K_UP",
           "MOUSEMOTION"}

EventLists == UNION {[1..n -> Events] : n \in 0..MaxEvents}

\* key_delta with a KEYUP of K_DOWN that adds to max_speed
key_delta_keyup_adds(e) ==
    CASE e = "KEYDOWN_K_DOWN" -> KeySpeed
      [] e = "KEYDOWN_K_UP"   -> -KeySpeed
      [] e = "KEYUP_K_DOWN"   -> KeySpeed
      [] e = "KEYUP_K_UP"     -> KeySpeed
      [] OTHER                -> 0

key_delta(e) ==
    CASE e = "KEYDOWN_K_DOWN" -> KeySpeed
      [] e = "KEYDOWN_K_UP"   -> -KeySpeed
      [] e = "KEYUP_K_DOWN"   -> -KeySpeed
      [] e = "KEYUP_K_UP"     -> KeySpeed
      [] OTHER                -> 0

\* the for loop over the list pygame.event.get() returned, from its i-th event:
\* [quit |-> the call returns True, max_speed |-> player1.max_speed afterwards]
RECURSIVE handle_from(_, _, _)
handle_from(evs, i, speed) ==
    IF i > Len(evs) THEN [quit |-> FALSE, max_speed |-> speed]
    ELSE IF evs[i] = "QUIT" THEN [quit |-> TRUE, max_speed |-> speed]
    ELSE handle_from(evs, i + 1, speed + key_delta(evs[i]))

handle_events(evs, speed) == handle_from(evs, 1, speed)

\* The keyboard as the events pygame delivered tell it: per key the number of
\* KEYDOWN events whose KEYUP has not arrived, while every KEYUP so far followed a
\* KEYDOWN of its key; after a KEYUP without one, stray, and the counts are dropped.
NoKeys == [down |-> 0, up |-> 0, stray |-> FALSE]

StrayKeys == [down |-> 0, up |-> 0, stray |-> TRUE]

key_event(k, e) ==
    IF k.stray THEN k
    ELSE CASE e = "KEYDOWN_K_DOWN" -> [k EXCEPT !.down = k.down + 1]
           [] e = "KEYDOWN_K_UP"   -> [k EXCEPT !.up = k.up + 1]
           [] e = "KEYUP_K_DOWN"   -> IF k.down = 0 THEN StrayKeys
                                      ELSE [k EXCEPT !.down = k.down - 1]
           [] e = "KEYUP_K_UP"     -> IF k.up = 0 THEN StrayKeys
                                      ELSE [k EXCEPT !.up = k.up - 1]
           [] OTHER                -> k

\* all the events of one pygame.event.get(), those behind a QUIT included
RECURSIVE delivered(_, _, _)
delivered(evs, i, k) ==
    IF i > Len(evs) THEN k ELSE delivered(evs, i + 1, key_event(k, evs[i]))

KeySpeeds == {KeySpeed * n : n \in -MaxSpeedSteps..MaxSpeedSteps}

KeyStates == [down : 0..MaxHeld, up : 0..MaxHeld, stray : {FALSE}] \cup {StrayKeys}

\* what one handle_events call can do, by the max_speed and the keyboard before it
\* (f @@ <<>> is f, tabulated once)
HandleOutcomes ==
    [p \in KeySpeeds \X KeyStates |->
        {[ret |-> handle_events(evs, p[1]), keys |-> delivered(evs, 1, p[2])] :
            evs \in EventLists}] @@ <<>>

----------------------------------------------------------------------------
(* PongGame.__init__ and PongGame.run *)

StartBall ==
    [x |-> BallStartX, y |-> BallStartY, x_speed |-> BallSpeed, y_speed |-> BallSpeed]

Init ==
    /\ ball = StartBall
    /\ player1 = [y |-> RacketStartY, max_speed |-> 0]
    /\ player2 = [y |-> RacketStartY, max_speed |-> AiSpeed]
    /\ score = [i \in 0..1 |-> 0]
    /\ pc = "print"
    /\ pygame_on = TRUE
    /\ tick = 0
    /\ judged = [prev |-> "none", cur |-> "none"]
    /\ struck = [prev |-> {}, cur |-> {}]
    /\ keys = NoKeys
    /\ last = [op |-> "init"]

\* one call of handle_events while pygame is initialised, continuing at `go` when it
\* returns None and at `stop` when it returns True
HandleCall(go, stop) ==
    /\ pygame_on
    /\ \E o \in HandleOutcomes[<<player1.max_speed, keys>>] :
         /\ o.ret.max_speed \in KeySpeeds
         /\ o.keys \in KeyStates
         /\ player1' = [player1 EXCEPT !.max_speed = o.ret.max_speed]
         /\ keys' = o.keys
         /\ pygame_on' = ~o.ret.quit
         /\ pc' = IF o.ret.quit THEN stop ELSE go
         /\ last' = [op |-> "handle_events", at |-> pc, quit |-> o.ret.quit,
                     pygame_was_on |-> TRUE]

\* pygame.event.get() after pygame.quit(): pygame.error is raised and run() ends
HandleCallAfterQuit ==
    /\ ~pygame_on
    /\ pc' = "error"
    /\ last' = [op |-> "handle_events", at |-> pc, quit |-> FALSE,
                pygame_was_on |-> FALSE]
    /\ UNCHANGED <<player1, pygame_on, keys>>

\* line 54: print(not self.handle_events())
PrintHandleEvents ==
    /\ pc = "print"
    /\ HandleCall("while", "while")
    /\ UNCHANGED <<ball, player2, score, tick, judged, struck>>

\* line 55: while not self.handle_events()
WhileHandleEvents ==
    /\ pc = "while"
    /\ tick < MaxTicks
    /\ \/ HandleCall("move", "done")
       \/ HandleCallAfterQuit
    /\ tick' = IF pc' = "move" THEN tick + 1 ELSE tick
    /\ UNCHANGED <<ball, player2, score, judged, struck>>

\* line 56: self.ball.move(self.board, self.player1, self.player2)
BallMove ==
    /\ pc = "move"
    /\ ball' = move(ball, player1.y, player2.y)
    /\ pc' = "draw"
    /\ struck' = [prev |-> struck.cur,
                  cur |-> hit_rackets(advance(ball), player1.y, player2.y)]
    /\ last' = [op |-> "Ball.move", ball |-> ball]
    /\ UNCHANGED <<player1, player2, score, pygame_on, tick, judged, keys>>

\* lines 57-62: self.board.draw(...), whose only effect on the game is
\* Judge.draw_on calling update_score(width)
BoardDraw ==
    /\ pc = "draw"
    /\ LET r == update_score(score, ball, BoardWidth) IN
         /\ score' = r[1]
         /\ ball' = r[2]
    /\ judged' = [prev |-> judged.cur, cur |-> award(score, score')]
    /\ pc' = "ai"
    /\ last' = [op |-> "Judge.update_score", ball |-> ball, score |-> score]
    /\ UNCHANGED <<player1, player2, pygame_on, tick, struck, keys>>

\* line 63: self.ai.move()
AiMove ==
    /\ pc = "ai"
    /\ player2' = ai_move(player2, ball)
    /\ pc' = "smooth"
    /\ last' = [op |-> "Ai.move", player2 |-> player2,
                moved |-> racket_move(player2.y, player2.max_speed, centery(ball))]
    /\ UNCHANGED <<ball, player1, score, pygame_on, tick, judged, struck, keys>>

\* lines 64-65: self.player1.move_smooth(); self.fps_clock.tick(30)
MoveSmooth ==
    /\ pc = "smooth"
    /\ player1' = move_smooth(player1)
    /\ pc' = "while"
    /\ last' = [op |-> "Racket.move_smooth", player1 |-> player1]
    /\ UNCHANGED <<ball, player2, score, pygame_on, tick, judged, struck, keys>>

Next ==
    \/ PrintHandleEvents
    \/ WhileHandleEvents
    \/ BallMove
    \/ BoardDraw
    \/ AiMove
    \/ MoveSmooth

Spec == Init /\ [][Next]_vars

-----------------------------------------------------------------------------
(* The loop of run as a function: every game the loop can have made of a   *)
(* game, whichever events pygame delivers.                                  *)

\* the values of player1.max_speed a handle_events call that meets no QUIT can
\* leave, by the value before it (f @@ <<>> is f, tabulated once)
speeds_after ==
    [speed \in KeySpeeds |->
        {r.max_speed : r \in {q \in {handle_events(evs, speed) : evs \in EventLists} :
                                 ~q.quit /\ q.max_speed \in KeySpeeds}}] @@ <<>>

\* lines 56-64 on the game g = [ball, player1, player2, score], after a
\* handle_events call that left player1.max_speed = speed
run_tick(g, speed) ==
    LET b == move(g.ball, g.player1.y, g.player2.y)
        j == update_score(g.score, b, BoardWidth)
    IN  [ball |-> j[2],
         player1 |-> move_smooth([g.player1 EXCEPT !.max_speed = speed]),
         player2 |-> ai_move(g.player2, j[2]),
         score |-> j[1]]

\* in the next tick of g Ball.move leaves the ball on or past the right boundary
\* and update_score makes score[1] positive
beaten_in_tick(g) ==
    LET b == move(g.ball, g.player1.y, g.player2.y)
    IN  /\ b.x >= BoardWidth - BallSize
        /\ update_score(g.score, b, BoardWidth)[1][1] > 0

\* some game among games is beaten_in_tick within its next n ticks, under some
\* choice of the events of each handle_events call
RECURSIVE beaten_within(_, _)
beaten_within(games, n) ==
    IF n = 0 THEN FALSE
    ELSE \/ \E g \in games : beaten_in_tick(g)
         \/ beaten_within(UNION {{run_tick(g, s) : s \in speeds_after[g.player1.max_speed]} :
                                    g \in games}, n - 1)

----------------------------------------------------------------------------
(* The methods called on objects in any state: one pass through the loop   *)
(* body, or one call of Ball.reset or Racket.move, from coordinates near   *)
(* the walls and the centre of the board.                                  *)

Near(c) == (c - Margin)..(c + Margin)

AnyBalls ==
    [x : Near(0) \cup Near(BallStartX) \cup Near(BoardWidth - BallSize),
     y : Near(0) \cup Near(BallStartY) \cup Near(BoardHeight - BallSize),
     x_speed : {-BallSpeed, BallSpeed},
     y_speed : {-BallSpeed, BallSpeed}]

AnyRacketYs == {0, BallStartY - RacketHeight + Margin, BallStartY, BoardHeight - RacketHeight}

AnyKeySpeeds == {-KeySpeed, 0, KeySpeed}

AnyScores == [0..1 -> 0..MaxAnyScore]

AnyTargets(ry) == ((ry - MaxAnySpeed - 2)..(ry + MaxAnySpeed + 2)) \cup {-FarTarget, FarTarget}

InitAny ==
    /\ pygame_on = TRUE
    /\ tick = 0
    /\ judged = [prev |-> "none", cur |-> "none"]
    /\ struck = [prev |-> {}, cur |-> {}]
    /\ keys = NoKeys
    /\ last = [op |-> "init"]
    /\ \/ /\ pc = "move"
          /\ ball \in AnyBalls
          /\ player1 \in [y : AnyRacketYs, max_speed : AnyKeySpeeds]
          /\ player2 \in [y : AnyRacketYs \ {0}, max_speed : {AiSpeed}]
          /\ score \in AnyScores
       \/ /\ pc = "call"
          /\ player1 = [y |-> RacketStartY, max_speed |-> 0]
          /\ score = [i \in 0..1 |-> 0]
          /\ \/ /\ ball \in AnyBalls
                /\ player2 = [y |-> RacketStartY, max_speed |-> AiSpeed]
             \/ /\ ball = StartBall
                /\ player2 \in [y : AnyRacketYs, max_speed : 0..MaxAnySpeed]

\* self.ball.reset()
CallReset ==
    /\ pc = "call"
    /\ ball' = reset(ball)
    /\ pc' = "return"
    /\ last' = [op |-> "Ball.reset", ball |-> ball]
    /\ UNCHANGED <<player1, player2, score, pygame_on, tick, judged, struck, keys>>

\* self.racket.move(y)
CallRacketMove ==
    /\ pc = "call"
    /\ \E y \in AnyTargets(player2.y) :
         /\ player2' = [player2 EXCEPT !.y = racket_move(player2.y, player2.max_speed, y)]
         /\ last' = [op |-> "Racket.move", racket |-> player2, y |-> y]
    /\ pc' = "return"
    /\ UNCHANGED <<ball, player1, score, pygame_on, tick, judged, struck, keys>>

NextAny ==
    \/ BallMove
    \/ BoardDraw
    \/ AiMove
    \/ MoveSmooth
    \/ CallReset
    \/ CallRacketMove

SpecAny == InitAny /\ [][NextAny]_vars

----------------------------------------------------------------------------
(* Properties *)

AtStart(b) == b.x = BallStartX /\ b.y = BallStartY

InArena(ry) == ry >= 0 /\ ry + RacketHeight <= BoardHeight

\* the ball's rect intersects a racket's rect, rackets at y1 and y2
HitsRacket(b, y1, y2) == colliderect(b, Player1X, y1) \/ colliderect(b, Player2X, y2)

\* C1: update_score, on the position Ball.move left, does exactly one of: at
\* x <= 0 raise score[0] by 1, keep score[1], put the ball at its start; else at
\* x >= board_width - ball.width raise score[1] by 1, keep score[0], put the ball
\* at its start; else change neither counter nor the position.
C1_UpdateScoreCases ==
    last.op = "Judge.update_score" =>
        IF last.ball.x <= 0
        THEN score[0] = last.score[0] + 1 /\ score[1] = last.score[1] /\ AtStart(ball)
        ELSE IF last.ball.x >= BoardWidth - BallSize
             THEN /\ score[1] = last.score[1] + 1
                  /\ score[0] = last.score[0]
                  /\ AtStart(ball)
             ELSE /\ score = last.score
                  /\ ball.x = last.ball.x
                  /\ ball.y = last.ball.y

\* a ball one pixel past the left boundary was scored for counter 0 and reset
C1_Witness ==
    /\ last.op = "Judge.update_score"
    /\ last.ball.x = -1
    /\ score[0] = last.score[0] + 1
    /\ AtStart(ball)

\* C2: a tick whose Ball.move leaves the ball at x <= 0 raises score[0] by 1, and
\* the tick after one that raised score[0] does not raise it again.
C2_LeftCrossingScoredOnce ==
    last.op = "Judge.update_score" =>
        /\ last.ball.x <= 0 => score[0] = last.score[0] + 1
        /\ judged.prev = "left" => score[0] = last.score[0]

\* the update_score of the tick after a left crossing has run
C2_Witness ==
    /\ last.op = "Judge.update_score"
    /\ judged.prev = "left"
    /\ score[0] = 1

\* C3: the counters are never negative; a step changes at most one of them, by
\* exactly +1, and only the update_score step changes them.
C3_ScoreMonotone ==
    [][/\ score[0] >= 0 /\ score[1] >= 0 /\ score'[0] >= 0 /\ score'[1] >= 0
       /\ \/ score' = score
          \/ /\ pc = "draw"
             /\ \/ score'[0] = score[0] + 1 /\ score'[1] = score[1]
                \/ score'[1] = score[1] + 1 /\ score'[0] = score[0]]_vars

\* update_score has just raised score[0] and left score[1] alone
C3_Witness ==
    /\ last.op = "Judge.update_score"
    /\ last.score[0] = 0
    /\ score[0] = 1
    /\ score[1] = 0

\* C4: |x_speed| = 5 and |y_speed| = 5 in every reachable state.
C4_SpeedMagnitude == Abs(ball.x_speed) = BallSpeed /\ Abs(ball.y_speed) = BallSpeed

\* both signs differ from construction after a bounce off the left wall and a reset
C4_Witness ==
    /\ score[0] >= 1
    /\ ball.x_speed = -BallSpeed
    /\ ball.y_speed = -BallSpeed

\* C5: when the advanced ball has x <= 0, Ball.move ends with x_speed turned from
\* negative to positive; when it has x >= board width - ball width, with x_speed
\* turned from positive to negative; also when the ball intersects a racket.
C5_WallFlipsXSpeed ==
    last.op = "Ball.move" =>
        /\ advance(last.ball).x <= 0 =>
               last.ball.x_speed < 0 /\ ball.x_speed > 0
        /\ advance(last.ball).x >= BoardWidth - BallSize =>
               last.ball.x_speed > 0 /\ ball.x_speed < 0

\* C6: in a tick in which the ball intersects a racket at the collision check of
\* Ball.move, update_score raises no counter and does not reset the ball.
C6_CollisionOverridesScoring ==
    (last.op = "Judge.update_score" /\ HitsRacket(last.ball, player1.y, player2.y)) =>
        score = last.score /\ ball = last.ball

\* C7: at the end of every tick both rackets are inside the arena vertically.
C7_RacketsInArena ==
    (pc = "while" /\ tick >= 1) => InArena(player1.y) /\ InArena(player2.y)

\* C8: Racket.move(y) with max_speed >= 0 changes rect.y by at most max_speed;
\* it lands on y when |y - rect.y| <= max_speed and else moves max_speed toward y.
C8_RacketMoveLimited ==
    (last.op = "Racket.move" /\ last.racket.max_speed >= 0) =>
        LET r == last.racket
            d == last.y - r.y
        IN  /\ Abs(player2.y - r.y) <= r.max_speed
            /\ IF Abs(d) <= r.max_speed
               THEN player2.y = last.y
               ELSE player2.y = r.y + (IF d > 0 THEN r.max_speed ELSE -r.max_speed)

\* a target far below the arena moved the racket by its max_speed only
C8_Witness ==
    /\ last.op = "Racket.move"
    /\ last.y = FarTarget
    /\ last.racket.max_speed = AiSpeed
    /\ player2.y = last.racket.y + AiSpeed

\* C9: Ball.reset puts the ball at (400, 250) from any position, negates y_speed
\* and leaves x_speed as it was.
C9_ResetEffect ==
    last.op = "Ball.reset" =>
        /\ ball.x = BallStartX
        /\ ball.y = BallStartY
        /\ ball.y_speed = -last.ball.y_speed
        /\ ball.x_speed = last.ball.x_speed

\* a ball away from the start, at the right wall, was reset
C9_Witness ==
    /\ last.op = "Ball.reset"
    /\ last.ball.x >= BoardWidth - BallSize
    /\ last.ball.y # BallStartY
    /\ AtStart(ball)

\* C10: once handle_events has observed a quit event nothing more executes: no
\* step of the loop body, and no further call of handle_events.
C10_NothingAfterQuit ==
    [][~pygame_on => (pc' = pc /\ UNCHANGED <<ball, player1, player2, score>>)]_vars


\* 1 while the key has a KEYDOWN without its KEYUP, else 0
Held(n) == IF n > 0 THEN 1 ELSE 0

\* C11: within every tick the steps run in the order handle_events, the human
\* racket's move, Ball.move with its collision checks, Ai.move, update_score: the
\* human racket moves right after the input is drained and before the ball
\* advances, and Ai.move runs before update_score looks at the ball.
C11_TickOrder ==
    [][/\ (last'.op = "Racket.move_smooth" => last.op = "handle_events")
       /\ (last'.op = "Ball.move" => last.op = "Racket.move_smooth")
       /\ (last'.op = "Ai.move" => last.op = "Ball.move")
       /\ (last'.op = "Judge.update_score" => last.op = "Ai.move")]_vars

\* C12: the computer's racket can be beaten: from the state PongGame(800, 500)
\* constructs there is a sequence of key events under which, in some tick, the
\* ball reaches the right boundary (rect.x >= 780) and score[1] becomes positive.
C12_CanBeBeaten ==
    last.op = "init" =>
        beaten_within({[ball |-> ball,
                        player1 |-> [player1 EXCEPT !.max_speed = s],
                        player2 |-> player2,
                        score |-> score] : s \in speeds_after[player1.max_speed]},
                      MaxBeatTicks)

\* C13 as stated: while every KEYUP so far followed a KEYDOWN of its key, after
\* each handle_events call max_speed = 7 * (DOWN held) - 7 * (UP held), which is
\* in {-7, 0, 7} and is 0 when no key is held; and move_smooth leaves rect.y at
\* its value before the call plus the speed.
C13_KeyHoldControl ==
    /\ (last.op = "handle_events" /\ last.pygame_was_on /\ ~keys.stray) =>
          /\ player1.max_speed = KeySpeed * Held(keys.down) - KeySpeed * Held(keys.up)
          /\ player1.max_speed \in {-KeySpeed, 0, KeySpeed}
          /\ (keys.down = 0 /\ keys.up = 0 => player1.max_speed = 0)
    /\ last.op = "Racket.move_smooth" =>
          player1.y = last.player1.y + last.player1.max_speed

\* C13, amended: while every KEYUP so far followed a KEYDOWN of its key, after
\* each handle_events call that met no QUIT max_speed = 7 * (KEYDOWNs of K_DOWN
\* without their KEYUP) - 7 * (KEYDOWNs of K_UP without their KEYUP); so while no
\* key has two of them it is 7 * (DOWN held) - 7 * (UP held), in {-7, 0, 7}, and
\* 0 when no key is held; and move_smooth puts the racket's top at 0 if it was
\* above, its bottom at the board's height if it was below, and then adds the speed.
C13_KeyCountControl ==
    /\ (last.op = "handle_events" /\ last.pygame_was_on /\ ~last.quit /\ ~keys.stray) =>
          /\ player1.max_speed = KeySpeed * keys.down - KeySpeed * keys.up
          /\ (keys.down <= 1 /\ keys.up <= 1) =>
                /\ player1.max_speed = KeySpeed * Held(keys.down) - KeySpeed * Held(keys.up)
                /\ player1.max_speed \in {-KeySpeed, 0, KeySpeed}
          /\ (keys.down = 0 /\ keys.up = 0 => player1.max_speed = 0)
    /\ last.op = "Racket.move_smooth" =>
          LET y0 == last.player1.y
              speed == last.player1.max_speed
          IN  /\ InArena(y0) => player1.y = y0 + speed
              /\ y0 < 0 => player1.y = speed
              /\ y0 + RacketHeight > BoardHeight =>
                    player1.y = BoardHeight - RacketHeight + speed

\* both keys are down, K_DOWN twice, after a handle_events call inside the loop
C13_Witness ==
    /\ last.op = "handle_events"
    /\ ~last.quit
    /\ tick >= 1
    /\ ~keys.stray
    /\ keys.down = 2
    /\ keys.up = 1
    /\ player1.max_speed = KeySpeed

\* C14: Ai.move aims the racket's rect.y at the ball's rect.centery with
\* max_speed 10: a gap above 10 before the call is 10 smaller after Racket.move,
\* and at a gap of 10 or less Racket.move leaves rect.y on the centery; both
\* before the clamps of Ai.move.
C14_AiPursuit ==
    last.op = "Ai.move" =>
        LET target == ball.y + BallSize \div 2
            gap_before == Abs(target - last.player2.y)
            gap_after == Abs(target - last.moved)
        IN  /\ last.player2.max_speed = 10
            /\ gap_before > 10 => gap_after = gap_before - 10
            /\ gap_before <= 10 => last.moved = target

\* Ai.move has met a gap above 10 and Racket.move has not reached the centery
C14_Witness ==
    /\ last.op = "Ai.move"
    /\ Abs(ball.y + BallSize \div 2 - last.player2.y) > 10
    /\ last.moved # ball.y + BallSize \div 2

\* C15: Ball.move leaves the ball at its position before the call plus the
\* velocity before the call, whichever bounces it made; the first Ball.move takes
\* the ball from (400, 250) with velocity (5, 5) to (405, 255), where it is at
\* the end of the first tick.
C15_MoveAdvances ==
    /\ last.op = "Ball.move" =>
          /\ ball.x = last.ball.x + last.ball.x_speed
          /\ ball.y = last.ball.y + last.ball.y_speed
    /\ (tick = 1 /\ last.op = "Ball.move") =>
          /\ last.ball = [x |-> 400, y |-> 250, x_speed |-> 5, y_speed |-> 5]
          /\ ball.x = 405 /\ ball.y = 255
    /\ (tick = 1 /\ last.op = "Racket.move_smooth") => (ball.x = 405 /\ ball.y = 255)

\* Ball.move has advanced the ball into player2's racket and bounced off it
C15_Witness ==
    /\ last.op = "Ball.move"
    /\ struck.cur = {2}
    /\ ball.x_speed = -last.ball.x_speed
    /\ ball.x = last.ball.x + BallSpeed

\* C16: in every reachable state the ball's rect lies inside the arena:
\* 0 <= x <= 780 and 0 <= y <= 480.
C16_BallInArena ==
    /\ 0 <= ball.x /\ ball.x <= BoardWidth - BallSize
    /\ 0 <= ball.y /\ ball.y <= BoardHeight - BallSize

\* Ball.move has left the ball on the left boundary, after it touched the
\* bottom and the top wall and player2's racket
C16_Witness ==
    /\ last.op = "Ball.move"
    /\ ball.x = 0
    /\ tick > 200

\* C17: no racket's branch of Ball.move fires in two consecutive ticks.
C17_NoSticking == struck.prev \cap struck.cur = {}

\* the Ball.move after one that bounced off player1's racket
C17_Witness ==
    /\ last.op = "Ball.move"
    /\ struck.prev = {1}

\* C18 as stated: while every KEYUP so far followed a KEYDOWN of its key, at the
\* end of every tick player1's rect has top >= -7 and bottom <= 507.
C18_OneStepOutside ==
    (last.op = "Racket.move_smooth" /\ ~keys.stray) =>
        /\ player1.y >= -KeySpeed
        /\ player1.y + RacketHeight <= BoardHeight + KeySpeed

\* C18, amended: while every KEYUP so far followed a KEYDOWN of its key, at the
\* end of every tick in which no key has two KEYDOWNs without their KEYUP,
\* player1's rect has top >= -7 and bottom <= 507.
C18_OneStepOutsideOneKeydown ==
    (last.op = "Racket.move_smooth" /\ ~keys.stray /\ keys.down <= 1 /\ keys.up <= 1) =>
        /\ player1.y >= -KeySpeed
        /\ player1.y + RacketHeight <= BoardHeight + KeySpeed

\* a tick ends with K_UP held and the racket's top one step above the arena
C18_Witness ==
    /\ last.op = "Racket.move_smooth"
    /\ ~keys.stray
    /\ keys.up = 1
    /\ keys.down = 0
    /\ player1.y = -KeySpeed

====
